---- MODULE Spec2Model ----
(***************************************************************************)
(* Model of the AI Search Transparency single-page application:            *)
(*   - App (src/src/App.tsx): the six useState hooks, handleSearch,        *)
(*     filteredResults, the chip list and the Clear Results button;        *)
(*   - SearchInput (src/src/components/SearchComponents.tsx): the query    *)
(*     box, handleSubmit and the fast-mode button;                         *)
(*   - performTransparentSearch / getAIClient (src/src/App.tsx, second     *)
(*     half): the query orchestrator.                                      *)
(*                                                                         *)
(* A nullable value (T | null, T | undefined) is a sequence of length at   *)
(* most one: None is null/undefined and Some(v) is the value v.  A string  *)
(* the user types is a sequence of one-character strings, so that trim()   *)
(* is computed and not assumed.                                            *)
(***************************************************************************)
EXTENDS Integers, Sequences, FiniteSets, TLC

VARIABLES
    isLoading,      \* App state: useState(false)
    isFastMode,     \* App state: useState(false), the UI toggle
    data,           \* App state: TransparencyResponse | null
    activeKeyword,  \* App state: string | null
    error,          \* App state: string | null
    loadingStep,    \* App state: string
    query,          \* SearchInput state: the text of the query box
    searches,       \* the handleSearch invocations, in order of their start
    apiKey,         \* whether the environment holds the Gemini API key
    mounted,        \* FALSE once a render of App has thrown (React unmounts the tree)
    lastEvent       \* the last event handled (history variable)

vars == <<isLoading, isFastMode, data, activeKeyword, error, loadingStep,
          query, searches, apiKey, mounted, lastEvent>>

-----------------------------------------------------------------------------
(* Bounds of the model *)

MaxKeywords == 2
MaxResults == 2
MaxSearches == 2

-----------------------------------------------------------------------------
(* Nullable values *)

None == <<>>
Some(v) == <<v>>

(* Sequences over S of length at most n *)
SeqUpTo(S, n) == UNION {[1..m -> S] : m \in 0..n}

-----------------------------------------------------------------------------
(* Strings of the program *)

ErrorMessage == "Failed to perform search. Please try again."
StepAnalyzing == "Analyzing query intent..."
StepGenerating == "Generating search strategies..."
StepExecuting == "Executing real-time web searches..."
AllSentinel == "all"

(* Keyword strings the backend may return: two ordinary keywords, the text *)
(* of the "all" sentinel and the empty string.                             *)
KeywordStrings == {"EV range 2025", "EV pricing 2025", "all", ""}
Urls == {"https://example.com/a", "https://example.com/b"}

(* SearchResult: title and snippet are only rendered and are left out.  A  *)
(* result is tagged with an ordinary keyword or with the sentinel text; it *)
(* need not be tagged with an element of the response's keywords.          *)
ResultKeywords == {"EV range 2025", "all"}
SearchResult == [keyword : ResultKeywords, url : Urls]

KeywordLists == SeqUpTo(KeywordStrings, MaxKeywords)
ResultLists == SeqUpTo(SearchResult, MaxResults)
GroundingQueries == {None, Some(<<>>), Some(<<"ev range 2025 miles">>)}

-----------------------------------------------------------------------------
(* The query box: String.prototype.trim and truthiness of a string *)

WhiteSpace == {" ", "\t"}

RECURSIVE trimStart(_)
trimStart(s) ==
    IF s = <<>> THEN <<>>
    ELSE IF Head(s) \in WhiteSpace THEN trimStart(Tail(s)) ELSE s

RECURSIVE trimEnd(_)
trimEnd(s) ==
    IF s = <<>> THEN <<>>
    ELSE IF s[Len(s)] \in WhiteSpace THEN trimEnd(SubSeq(s, 1, Len(s) - 1)) ELSE s

trim(s) == trimEnd(trimStart(s))

(* a string is truthy iff it is not empty *)
Truthy(s) == s # <<>>

Queries == { <<>>, <<" ", "\t">>, <<" ", "e", "v", " ">> }

-----------------------------------------------------------------------------
(* The backend: what ai.models.generateContent may produce *)

(* The values JSON.parse can return.  An object is given by the two fields *)
(* the program reads; an absent field is None (undefined).  An array is an *)
(* object with neither field.                                              *)
JsonNull == [kind |-> "null", keywords |-> None, results |-> None]
JsonPrimitive == [kind |-> "primitive", keywords |-> None, results |-> None]
JsonObjects ==
    [kind : {"object"},
     keywords : {None} \cup {Some(l) : l \in KeywordLists},
     results : {None} \cup {Some(l) : l \in ResultLists}]
JsonValues == {JsonNull, JsonPrimitive} \cup JsonObjects

(* response.text: the empty string, a text that is not JSON, or the text   *)
(* of a JSON value.                                                        *)
EmptyText == [syntax |-> "empty", value |-> JsonNull]
InvalidText == [syntax |-> "invalid", value |-> JsonNull]
JsonText(v) == [syntax |-> "json", value |-> v]
Texts == {EmptyText, InvalidText} \cup {JsonText(v) : v \in JsonValues}

(* JSON.parse: the value of a JSON text, a SyntaxError otherwise *)
JSONParse(text) ==
    IF text.syntax = "json"
    THEN [threw |-> FALSE, value |-> text.value]
    ELSE [threw |-> TRUE, value |-> JsonNull]

Rejected == [kind |-> "rejected", text |-> None, webSearchQueries |-> None]
Fulfilled ==
    [kind : {"fulfilled"},
     text : {None} \cup {Some(t) : t \in Texts},
     webSearchQueries : GroundingQueries]
BackendOutcomes == {Rejected} \cup Fulfilled

(* the class of a backend outcome, recorded in lastEvent *)
OutcomeClass(outcome) ==
    IF outcome.kind = "rejected" THEN "rejected"
    ELSE IF outcome.text = None \/ outcome.text[1].syntax = "empty" THEN "noText"
    ELSE IF outcome.text[1].syntax = "invalid" THEN "invalidJSON"
    ELSE "json"

-----------------------------------------------------------------------------
(* The query orchestrator *)

(* getAIClient without the check of the key *)
getAIClient_NoCheck(key) == [threw |-> FALSE]

(* getAIClient: throws when no API key is configured *)
getAIClient(key) == [threw |-> ~key]

Threw(message) ==
    [threw |-> TRUE, message |-> message,
     value |-> [keywords |-> None, results |-> None,
                actualQueries |-> None, isFastMode |-> FALSE]]
Returned(response) == [threw |-> FALSE, message |-> "", value |-> response]

(* data.actualQueries = isFastMode ? data.keywords : actualQueries, where  *)
(* actualQueries = groundingMetadata?.webSearchQueries || []               *)
ActualQueries(fast, keywords, webSearchQueries) ==
    IF fast THEN keywords
    ELSE IF webSearchQueries = None THEN Some(<<>>) ELSE webSearchQueries

(* performTransparentSearch from the point where generateContent settles.  *)
(* The module is strict-mode code: assigning a property of null or of a    *)
(* primitive throws a TypeError inside the inner try block.                *)
performTransparentSearch(fast, outcome) ==
    IF outcome.kind = "rejected" THEN Threw("backend call rejected")
    ELSE IF outcome.text = None \/ outcome.text[1].syntax = "empty"
    THEN Threw("No response from AI")
    ELSE LET parsed == JSONParse(outcome.text[1]) IN
         IF parsed.threw \/ parsed.value.kind # "object"
         THEN Threw("AI response was not valid JSON")
         ELSE Returned(
                [keywords |-> parsed.value.keywords,
                 results |-> parsed.value.results,
                 actualQueries |->
                     ActualQueries(fast, parsed.value.keywords,
                                   outcome.webSearchQueries),
                 isFastMode |-> fast])

-----------------------------------------------------------------------------
(* App: derived values of a render *)

(* filteredResults (useMemo): `!activeKeyword` holds for null and for ''. *)
filteredResults(d, keyword) ==
    IF d = None THEN <<>>
    ELSE IF keyword = Some(AllSentinel) \/ keyword = None \/ keyword = Some("")
    THEN d[1].results[1]
    ELSE LET Match(r) == r.keyword = keyword[1] IN SelectSeq(d[1].results[1], Match)

(* data.results.filter(r => r.keyword === keyword).length *)
CountFor(results, keyword) ==
    LET Match(r) == r.keyword = keyword IN Len(SelectSeq(results, Match))

(* the chip list with the "All Results" chip counting the keywords *)
KeywordChips_CountKeywords(d, keyword) ==
    <<[keyword |-> "All Results",
       isActive |-> keyword = Some(AllSentinel),
       resultCount |-> Len(d[1].keywords[1])]>>
    \o [idx \in 1..Len(d[1].keywords[1]) |->
          [keyword |-> d[1].keywords[1][idx],
           isActive |-> keyword = Some(d[1].keywords[1][idx]),
           resultCount |-> CountFor(d[1].results[1], d[1].keywords[1][idx])]]

(* The chip list of the left panel: the "All Results" chip, then one chip  *)
(* per element of data.keywords.                                           *)
KeywordChips(d, keyword) ==
    <<[keyword |-> "All Results",
       isActive |-> keyword = Some(AllSentinel),
       resultCount |-> Len(d[1].results[1])]>>
    \o [idx \in 1..Len(d[1].keywords[1]) |->
          [keyword |-> d[1].keywords[1][idx],
           isActive |-> keyword = Some(d[1].keywords[1][idx]),
           resultCount |-> CountFor(d[1].results[1], d[1].keywords[1][idx])]]

(* The results grid is rendered when !isLoading && data.  It reads         *)
(* data.keywords.length and data.results.length: a response without one of *)
(* the two fields makes the render throw, and React unmounts the tree.     *)
RenderThrows(loading, d) ==
    /\ ~loading
    /\ d # None
    /\ (d[1].keywords = None \/ d[1].results = None)

(* the Clear Results button and the chips are rendered *)
ResultsShown == mounted /\ ~isLoading /\ data # None

-----------------------------------------------------------------------------
(* handleSearch invocations *)

(* The closure of one handleSearch call: its position, its arguments, the  *)
(* isFastMode of the render that created it, and the backend calls it made *)
Invocation(q, fast) == [pc |-> "timer1", query |-> q, isFastMode |-> fast, calls |-> 0]
Finished(calls) == [pc |-> "done", query |-> <<>>, isFastMode |-> FALSE, calls |-> calls]

InFlight == {i \in 1..Len(searches) : searches[i].pc # "done"}
At(pc) == {i \in 1..Len(searches) : searches[i].pc = pc}

RECURSIVE SumCalls(_)
SumCalls(n) == IF n = 0 THEN 0 ELSE searches[n].calls + SumCalls(n - 1)

(* number of generateContent calls issued so far *)
BackendCalls == SumCalls(Len(searches))

(* number of onSearch (handleSearch) invocations so far *)
OnSearchCalls == Len(searches)

-----------------------------------------------------------------------------
Init ==
    /\ isLoading = FALSE
    /\ isFastMode = FALSE
    /\ data = None
    /\ activeKeyword = None
    /\ error = None
    /\ loadingStep = ""
    /\ query = <<>>
    /\ searches = <<>>
    /\ apiKey \in BOOLEAN
    /\ mounted = TRUE
    /\ lastEvent = "init"

(* SearchInput: onChange of the query box (disabled while loading) *)
OnChange(q) ==
    /\ mounted
    /\ ~isLoading
    /\ q # query
    /\ query' = q
    /\ lastEvent' = "change"
    /\ UNCHANGED <<isLoading, isFastMode, data, activeKeyword, error,
                   loadingStep, searches, apiKey, mounted>>

(* handleSubmit without the busy flag, and without the trim *)
SubmitAccepted_NoBusyFlag(q, loading) == Truthy(trim(q))
SubmitAccepted_NoTrim(q, loading) == Truthy(q) /\ ~loading

(* handleSubmit: if (query.trim() && !isLoading) onSearch(query) *)
SubmitAccepted(q, loading) == Truthy(trim(q)) /\ ~loading

(* handleSearch that keeps the previous response while it loads *)
handleSearchEntry_KeepData ==
    [isLoading |-> TRUE, error |-> None, data |-> data,
     activeKeyword |-> activeKeyword, loadingStep |-> StepAnalyzing]

(* handleSearch up to its first await *)
handleSearchEntry ==
    [isLoading |-> TRUE, error |-> None, data |-> None,
     activeKeyword |-> None, loadingStep |-> StepAnalyzing]

HandleSubmit ==
    /\ mounted
    /\ lastEvent' = "submit"
    /\ IF SubmitAccepted(query, isLoading)
       THEN /\ Len(searches) < MaxSearches
            /\ isLoading' = handleSearchEntry.isLoading
            /\ error' = handleSearchEntry.error
            /\ data' = handleSearchEntry.data
            /\ activeKeyword' = handleSearchEntry.activeKeyword
            /\ loadingStep' = handleSearchEntry.loadingStep
            /\ searches' = Append(searches, Invocation(query, isFastMode))
       ELSE UNCHANGED <<isLoading, error, data, activeKeyword, loadingStep, searches>>
    /\ UNCHANGED <<isFastMode, query, apiKey, mounted>>

(* the fast-mode button: onFastModeChange(!isFastMode) *)
OnFastModeChange ==
    /\ mounted
    /\ isFastMode' = ~isFastMode
    /\ lastEvent' = "fastMode"
    /\ UNCHANGED <<isLoading, data, activeKeyword, error, loadingStep,
                   query, searches, apiKey, mounted>>

(* the "All Results" chip: setActiveKeyword('all') *)
AllResultsClick ==
    /\ ResultsShown
    /\ activeKeyword' = Some(AllSentinel)
    /\ lastEvent' = "chip"
    /\ UNCHANGED <<isLoading, isFastMode, data, error, loadingStep,
                   query, searches, apiKey, mounted>>

(* a chip that starts a new search for its keyword *)
KeywordClick_Refetch(idx) ==
    /\ ResultsShown
    /\ idx \in 1..Len(data[1].keywords[1])
    /\ Len(searches) < MaxSearches
    /\ activeKeyword' = Some(data[1].keywords[1][idx])
    /\ isLoading' = TRUE
    /\ loadingStep' = StepAnalyzing
    /\ searches' = Append(searches, Invocation(query, isFastMode))
    /\ lastEvent' = "chip"
    /\ UNCHANGED <<isFastMode, data, error, query, apiKey, mounted>>

(* the chip of data.keywords[idx]: setActiveKeyword(keyword) *)
KeywordClick(idx) ==
    /\ ResultsShown
    /\ idx \in 1..Len(data[1].keywords[1])
    /\ activeKeyword' = Some(data[1].keywords[1][idx])
    /\ lastEvent' = "chip"
    /\ UNCHANGED <<isLoading, isFastMode, data, error, loadingStep,
                   query, searches, apiKey, mounted>>

(* a Clear Results button that is also rendered beside an error message *)
ClearResults_ShownOnError ==
    /\ mounted
    /\ ~isLoading
    /\ (data # None \/ error # None)
    /\ data' = None
    /\ activeKeyword' = None
    /\ lastEvent' = "clear"
    /\ UNCHANGED <<isLoading, isFastMode, error, loadingStep,
                   query, searches, apiKey, mounted>>

(* a Clear Results button that leaves the selected filter *)
ClearResults_KeepKeyword ==
    /\ ResultsShown
    /\ data' = None
    /\ lastEvent' = "clear"
    /\ UNCHANGED <<isLoading, isFastMode, activeKeyword, error, loadingStep,
                   query, searches, apiKey, mounted>>

(* the Clear Results button, rendered when data && !isLoading *)
ClearResults ==
    /\ ResultsShown
    /\ data' = None
    /\ activeKeyword' = None
    /\ lastEvent' = "clear"
    /\ UNCHANGED <<isLoading, isFastMode, error, loadingStep,
                   query, searches, apiKey, mounted>>

(* the first 600 ms timer of invocation i fires *)
FirstTimer(i) ==
    /\ mounted
    /\ searches[i].pc = "timer1"
    /\ loadingStep' = StepGenerating
    /\ searches' = [searches EXCEPT ![i].pc = "timer2"]
    /\ lastEvent' = "timer"
    /\ UNCHANGED <<isLoading, isFastMode, data, activeKeyword, error,
                   query, apiKey, mounted>>

(* a catch block without the finally block: the busy flag and the label stay *)
handleSearchFailed_NoFinally(d, keyword) ==
    [isLoading |-> isLoading, error |-> Some(ErrorMessage), data |-> d,
     activeKeyword |-> keyword, loadingStep |-> loadingStep]

(* what the catch and finally blocks of handleSearch leave *)
handleSearchFailed(d, keyword) ==
    [isLoading |-> FALSE, error |-> Some(ErrorMessage), data |-> d,
     activeKeyword |-> keyword, loadingStep |-> ""]

(* handleSearch after `await performTransparentSearch` returned response:  *)
(* setData(response), then response.keywords.length, which throws a        *)
(* TypeError when the response has no keywords field.                      *)
handleSearchReturned(response, keyword, err) ==
    IF response.keywords = None
    THEN handleSearchFailed(Some(response), keyword)
    ELSE [isLoading |-> FALSE, error |-> err, data |-> Some(response),
          activeKeyword |->
              IF Len(response.keywords[1]) > 0 THEN Some(AllSentinel) ELSE keyword,
          loadingStep |-> ""]

(* the mode read from the live flag when the call is made *)
RequestMode_LiveFlag(i) == isFastMode

(* the mode handleSearch passes to performTransparentSearch: the           *)
(* isFastMode of its closure                                               *)
RequestMode(i) == searches[i].isFastMode

(* The second 600 ms timer of invocation i fires: the third label is set   *)
(* in full mode and performTransparentSearch is called.  Without an API    *)
(* key getAIClient throws before generateContent; the rejection is caught  *)
(* in the same turn of the event loop.                                     *)
SecondTimer(i) ==
    /\ mounted
    /\ searches[i].pc = "timer2"
    /\ IF getAIClient(apiKey).threw
       THEN LET after == handleSearchFailed(data, activeKeyword) IN
            /\ isLoading' = after.isLoading
            /\ error' = after.error
            /\ data' = after.data
            /\ activeKeyword' = after.activeKeyword
            /\ loadingStep' = after.loadingStep
            /\ searches' = [searches EXCEPT ![i] = Finished(0)]
            /\ lastEvent' = "missingKey"
       ELSE /\ loadingStep' = IF RequestMode(i) THEN loadingStep ELSE StepExecuting
            /\ searches' = [searches EXCEPT ![i].pc = "calling", ![i].calls = @ + 1]
            /\ lastEvent' = "timer"
            /\ UNCHANGED <<isLoading, error, data, activeKeyword>>
    /\ mounted' = ~RenderThrows(isLoading', data')
    /\ UNCHANGED <<isFastMode, query, apiKey>>

(* generateContent of invocation i settles with outcome *)
Settle(i, outcome) ==
    /\ mounted
    /\ searches[i].pc = "calling"
    /\ LET result == performTransparentSearch(RequestMode(i), outcome)
           after == IF result.threw
                    THEN handleSearchFailed(data, activeKeyword)
                    ELSE handleSearchReturned(result.value, activeKeyword, error)
       IN /\ isLoading' = after.isLoading
          /\ error' = after.error
          /\ data' = after.data
          /\ activeKeyword' = after.activeKeyword
          /\ loadingStep' = after.loadingStep
    /\ searches' = [searches EXCEPT ![i] = Finished(searches[i].calls)]
    /\ lastEvent' = OutcomeClass(outcome)
    /\ mounted' = ~RenderThrows(isLoading', data')
    /\ UNCHANGED <<isFastMode, query, apiKey>>

Next ==
    \/ \E q \in Queries : OnChange(q)
    \/ HandleSubmit
    \/ OnFastModeChange
    \/ AllResultsClick
    \/ \E idx \in 1..MaxKeywords : KeywordClick(idx)
    \/ ClearResults
    \/ \E i \in At("timer1") : FirstTimer(i)
    \/ \E i \in At("timer2") : SecondTimer(i)
    \/ \E i \in At("calling") : \E outcome \in BackendOutcomes : Settle(i, outcome)

Spec == Init /\ [][Next]_vars

(* One backend outcome for every path through performTransparentSearch and *)
(* the rest of handleSearch: a rejection, no text, the empty text, a text  *)
(* that is not JSON, the JSON values null and a primitive, and an object   *)
(* with each of keywords and results absent, empty or of one element.      *)
SettleCases ==
    {Rejected}
    \cup [kind : {"fulfilled"},
          text : {None, Some(EmptyText), Some(InvalidText),
                  Some(JsonText(JsonNull)), Some(JsonText(JsonPrimitive))},
          webSearchQueries : {None}]
    \cup [kind : {"fulfilled"},
          text : {Some(JsonText(v)) :
                    v \in [kind : {"object"},
                           keywords : {None, Some(<<>>), Some(<<"EV range 2025">>)},
                           results : {None, Some(<<>>),
                                      Some(<<[keyword |-> "EV range 2025",
                                              url |-> "https://example.com/a"]>>)}]},
          webSearchQueries : {None, Some(<<"ev range 2025 miles">>)}]

(* the steps of Next, the backend answering with one of SettleCases *)
NextCases ==
    \/ \E q \in Queries : OnChange(q)
    \/ HandleSubmit
    \/ OnFastModeChange
    \/ AllResultsClick
    \/ \E idx \in 1..MaxKeywords : KeywordClick(idx)
    \/ ClearResults
    \/ \E i \in At("timer1") : FirstTimer(i)
    \/ \E i \in At("timer2") : SecondTimer(i)
    \/ \E i \in At("calling") : \E outcome \in SettleCases : Settle(i, outcome)

(* The two 600 ms timers of a handleSearch always fire (the event loop     *)
(* runs them), and the pending generateContent call eventually settles.    *)
(* The second condition is the hypothesis of the statements about a call   *)
(* that settles: the code sets no timeout of its own.                      *)
TimersFire ==
    /\ WF_vars(\E i \in At("timer1") : FirstTimer(i))
    /\ WF_vars(\E i \in At("timer2") : SecondTimer(i))
CallSettles ==
    WF_vars(\E i \in At("calling") : \E outcome \in SettleCases : Settle(i, outcome))

FairSpec == Init /\ [][NextCases]_vars /\ TimersFire /\ CallSettles

-----------------------------------------------------------------------------
(* Properties *)

FailureEvents == {"missingKey", "noText", "invalidJSON", "rejected"}

(* C1: an error message is never held together with a result set:          *)
(* whenever error is non-null, data is null.                               *)
C1_ErrorExcludesData == error # None => data = None

(* C2: a submission that ends in one of the four failure kinds (missing    *)
(* credential, empty body, text that is not JSON, rejected call) leaves    *)
(* isLoading = false, error = the generic message, data = null and         *)
(* activeKeyword = null.                                                   *)
C2_FailureClearsResult ==
    lastEvent \in FailureEvents =>
        /\ isLoading = FALSE
        /\ error = Some(ErrorMessage)
        /\ data = None
        /\ activeKeyword = None

(* a second submission has just failed on a text that is not JSON *)
C2_Witness ==
    /\ lastEvent = "invalidJSON"
    /\ Len(searches) = 2
    /\ error = Some(ErrorMessage)

(* C3: a response returned for a fast-mode request (here one that carries  *)
(* both lists) has an empty results list, actualQueries equal to keywords  *)
(* and isFastMode true.                                                    *)
C3_FastModeResponse ==
    (/\ data # None
     /\ data[1].isFastMode
     /\ data[1].keywords # None
     /\ data[1].results # None)
    => /\ data[1].results[1] = <<>>
       /\ data[1].actualQueries = data[1].keywords
       /\ data[1].isFastMode = TRUE

(* C4: in the ready state filteredResults is the full results list when    *)
(* the filter is "all" or unset, and for every keyword k of data.keywords  *)
(* selected as the filter it is the sub-list of the results whose keyword  *)
(* is k, in the original order.                                            *)
C4_FilterProjection ==
    ResultsShown =>
        /\ (activeKeyword \in {None, Some(AllSentinel)}
              => filteredResults(data, activeKeyword) = data[1].results[1])
        /\ \A idx \in 1..Len(data[1].keywords[1]) :
              (lastEvent = "chip" /\ activeKeyword = Some(data[1].keywords[1][idx]))
              => LET Match(r) == r.keyword = data[1].keywords[1][idx]
                 IN filteredResults(data, activeKeyword)
                        = SelectSeq(data[1].results[1], Match)

(* C5: selecting a keyword filter changes only activeKeyword: it issues no *)
(* backend call and leaves data, error, isLoading, isFastMode and          *)
(* loadingStep as they are.                                                *)
C5_FilterSelectionFrame ==
    [][lastEvent' = "chip" =>
          /\ BackendCalls' = BackendCalls
          /\ UNCHANGED <<searches, data, error, isLoading, isFastMode, loadingStep>>]_vars

(* a keyword chip other than the default has just been selected *)
C5_Witness ==
    /\ lastEvent = "chip"
    /\ activeKeyword = Some("EV pricing 2025")
    /\ data # None

(* C6: at most one handleSearch is outstanding, it is the newest one and   *)
(* isLoading is true exactly while it is; a submit while isLoading is true *)
(* starts nothing and changes no state of App.                             *)
C6_OneSearchOutstanding ==
    /\ [](/\ Cardinality(InFlight) <= 1
          /\ InFlight \subseteq {Len(searches)}
          /\ (mounted => (isLoading <=> InFlight # {})))
    /\ [][(isLoading /\ lastEvent' = "submit") =>
             UNCHANGED <<searches, isLoading, data, error, activeKeyword,
                         loadingStep, isFastMode>>]_vars

(* a submit was made, and ignored, while the backend call was pending *)
C6_Witness ==
    /\ lastEvent = "submit"
    /\ isLoading
    /\ At("calling") # {}
    /\ Truthy(trim(query))

(* C7: submitting an empty or whitespace-only query is a no-op: onSearch   *)
(* is not invoked, no backend call is issued and isLoading, data, error    *)
(* and activeKeyword are unchanged.                                        *)
C7_BlankSubmitNoOp ==
    [][(lastEvent' = "submit" /\ ~Truthy(trim(query))) =>
          /\ OnSearchCalls' = OnSearchCalls
          /\ BackendCalls' = BackendCalls
          /\ UNCHANGED <<searches, isLoading, data, error, activeKeyword>>]_vars

(* a whitespace-only query was submitted while a result was shown *)
C7_Witness ==
    /\ lastEvent = "submit"
    /\ query = <<" ", "\t">>
    /\ data # None
    /\ ~isLoading

(* C8: toggling fast mode changes only the isFastMode flag; a handleSearch *)
(* takes the flag of the moment of its submission, and the response it     *)
(* stores echoes that value even if the flag was toggled meanwhile.        *)
C8_FastModeToggle ==
    /\ [][lastEvent' = "fastMode" =>
             /\ isFastMode' = ~isFastMode
             /\ BackendCalls' = BackendCalls
             /\ UNCHANGED <<data, activeKeyword, error, isLoading, searches>>]_vars
    /\ [][Len(searches') > Len(searches) =>
             searches'[Len(searches')].isFastMode = isFastMode]_vars
    /\ [][\A i \in At("calling") :
             (searches'[i].pc = "done" /\ data' # None)
             => data'[1].isFastMode = searches[i].isFastMode]_vars

(* a response has arrived for a request whose mode the toggle has left *)
C8_Witness ==
    /\ lastEvent = "json"
    /\ data # None
    /\ data[1].isFastMode # isFastMode
    /\ mounted

(* C9: without an API key no backend call is ever issued and a submission  *)
(* ends in the error state; with a key every handleSearch has issued       *)
(* exactly one backend call once it has reached the call, and none before. *)
C9_BackendCallCount ==
    /\ BackendCalls = Cardinality(IF apiKey THEN At("calling") \cup At("done") ELSE {})
    /\ \A i \in 1..Len(searches) :
          searches[i].calls =
              IF apiKey /\ searches[i].pc \in {"calling", "done"} THEN 1 ELSE 0
    /\ (~apiKey => data = None)
    /\ (lastEvent = "missingKey" =>
          ~apiKey /\ ~isLoading /\ error = Some(ErrorMessage) /\ data = None)

(* two submissions were made without an API key *)
C9_Witness ==
    /\ ~apiKey
    /\ lastEvent = "missingKey"
    /\ Len(searches) = 2
    /\ error = Some(ErrorMessage)

ExampleKeywords == <<"EV range 2025", "EV pricing 2025">>
ExampleResults == <<[keyword |-> "EV range 2025", url |-> "https://example.com/a"]>>

(* the example response of a full-mode search is shown *)
ExampleShown ==
    /\ ResultsShown
    /\ ~data[1].isFastMode
    /\ data[1].keywords = Some(ExampleKeywords)
    /\ data[1].results = Some(ExampleResults)

(* the chips of the example and the cards of its "EV range 2025" filter *)
ExampleChips(allCount) ==
    ExampleShown =>
        LET chips == KeywordChips(data, activeKeyword) IN
        /\ Len(chips) = 3
        /\ chips[1].keyword = "All Results"
        /\ chips[1].resultCount = allCount
        /\ chips[2].keyword = "EV range 2025"
        /\ chips[3].keyword = "EV pricing 2025"
        /\ (lastEvent = "json" => chips[1].isActive)
        /\ (activeKeyword = Some("EV range 2025")
              => Len(filteredResults(data, activeKeyword)) = 1)

(* C10 as stated: for the example response the UI shows the two keyword    *)
(* chips and an "All Results" chip with count 2, selected by default, and  *)
(* selecting "EV range 2025" shows exactly 1 result card.                  *)
C10_ExampleAsStated == ExampleChips(2)

(* C10 amended: the same, the "All Results" chip showing count 1, the      *)
(* number of results of the response.                                      *)
C10_ExampleAmended == ExampleChips(1)

(* "EV range 2025" has been selected in the example *)
C10_Witness ==
    /\ ExampleShown
    /\ lastEvent = "chip"
    /\ activeKeyword = Some("EV range 2025")

(* C11: the clear action is taken only when a result is held and no        *)
(* request is in flight; it sets data and activeKeyword to null, issues no *)
(* backend call and leaves the UI idle (no result, no error, not loading). *)
(* The button is never shown while loading or beside an error message, and *)
(* an error message is removed only by a new submission.                   *)
C11_ClearResults ==
    /\ [](ResultsShown => (~isLoading /\ error = None))
    /\ [][lastEvent' = "clear" =>
             /\ data # None /\ ~isLoading
             /\ data' = None /\ activeKeyword' = None
             /\ error' = None /\ ~isLoading'
             /\ BackendCalls' = BackendCalls
             /\ UNCHANGED <<searches, isFastMode, query>>]_vars
    /\ [][(error # None /\ error' = None) =>
             (lastEvent' = "submit" /\ Len(searches') = Len(searches) + 1)]_vars

(* the results of a search have just been cleared *)
C11_Witness ==
    /\ lastEvent = "clear"
    /\ Len(searches) >= 1
    /\ data = None
    /\ error = None
    /\ ~isLoading

SettleEvents == FailureEvents \cup {"json"}

C13_ActiveKeyword ==
    /\ (activeKeyword # None =>
          /\ data # None
          /\ data[1].keywords # None
          /\ \/ activeKeyword = Some(AllSentinel)
             \/ \E idx \in 1..Len(data[1].keywords[1]) :
                   activeKeyword = Some(data[1].keywords[1][idx]))
    /\ ((lastEvent = "json" /\ data # None /\ data[1].keywords # None) =>
          activeKeyword =
              IF Len(data[1].keywords[1]) > 0 THEN Some(AllSentinel) ELSE None)
    /\ (isLoading => activeKeyword = None)
    /\ (lastEvent = "clear" => activeKeyword = None)

(* a keyword of the second response has been selected as the filter *)
C13_Witness ==
    /\ lastEvent = "chip"
    /\ Len(searches) = 2
    /\ activeKeyword = Some("EV range 2025")

====
